---- MODULE Spec2Model ----
(***************************************************************************)
(* Verification model of the YouTube video summarizer pipeline             *)
(* (src/main.py): silence-segment recombination, the chunk transcription   *)
(* scheduler, the sentence-boundary text chunker, the positional           *)
(* summarizer, and the job that runs them in turn                          *)
(* (YouTubeProcessor.process_video, and WorkerThread.run of                *)
(* src/main_ui.py).                                                        *)
(*                                                                         *)
(* Conventions.  Python lists are TLA+ sequences, so the Python index i    *)
(* (0-based) is the TLA+ index i+1.  A text is a sequence of one-character *)
(* strings; the Bengali/Devanagari danda U+0964 is written "danda".  An    *)
(* AudioSegment is the sequence of its milliseconds, each tagged with the  *)
(* silence-delimited segment it came from, so len() is Len, += is \o and   *)
(* AudioSegment.empty() is << >>.                                          *)
(***************************************************************************)
EXTENDS Integers, Sequences, FiniteSets, TLC

VARIABLES
    \* ---- Transcriber.transcribe_audio ----
    segments,           \* result of split_on_silence: sequence of AudioSegments
    chunk_size_ms,      \* config["chunk_size_ms"]
    use_parallel,       \* config["use_parallel"]
    max_workers,        \* config["max_workers"]
    pc,                 \* position of transcribe_audio's thread of control
    chunks,             \* combined_chunks
    task,               \* per chunk: position of its process_chunk call
    files,              \* scratch files: file name -> chunk whose audio it holds
    future,             \* per chunk: value returned by process_chunk
    results,            \* list(executor.map(...)) as collected so far
    transcribed_text,   \* the pre-sized results array
    loop_i,             \* loop position of the for loop being executed
    full_transcription, \* the returned transcript
    outcome,            \* per chunk: what its export / recognition call did
    out_of_order,       \* history: some chunk finished before an earlier one
    invoked,            \* history: per chunk, calls of process_chunk and recognize_google
    \* ---- Summarizer.split_text_into_chunks ----
    text,               \* argument text
    max_chunk_size,     \* argument max_chunk_size
    tc_pc,              \* "call" before the call, "returned" after it
    tc_chunks,          \* returned list of chunks
    \* ---- Summarizer.summarize_text ----
    input_text,         \* argument input_text
    language_code,      \* argument language_code
    video_title,        \* argument video_title
    chunk_size,         \* argument chunk_size
    sum_pc,             \* position of summarize_text's thread of control
    text_chunks,        \* result of split_text_into_chunks
    sum_i,              \* loop variable i of the chunk loop (0-based, as in the code)
    chunk_summaries,    \* fragments appended so far
    requests,           \* history: every generate_content request issued, in order
    in_flight,          \* generate_content calls issued and not yet returned
    replies,            \* history: how each generate_content call ended, in order
    summary,            \* the returned document
    \* ---- YouTubeProcessor.process_video / WorkerThread.run ----
    entry,              \* "cli": process_video, "gui": WorkerThread.run
    punctuated,         \* input: the recognizer's texts end with a terminator
    job_pc,             \* position of the job's thread of control
    download_success,   \* first value returned by download_from_youtube
    job_title,          \* second value returned by download_from_youtube
    saved,              \* output files written by save_to_markdown
    job_result,         \* return value / success flag of complete_signal
    bound_args,         \* the job's summarize_text call: parameter -> argument
    emitted,            \* history: signals emitted by WorkerThread.run, in order
    \* ---- SummaryViewer (the main window) ----
    url_entered,        \* self.url_input holds a non-blank text
    process_btn_enabled, \* self.process_btn.isEnabled()
    worker,             \* number of the WorkerThread in self.worker, 0 before the first
    handled             \* history: results handled by process_complete, in order

trVars == <<segments, chunk_size_ms, use_parallel, max_workers, pc, chunks, task,
            files, future, results, transcribed_text, loop_i, full_transcription,
            outcome, out_of_order, invoked>>
tcVars == <<text, max_chunk_size, tc_pc, tc_chunks>>
sumVars == <<input_text, language_code, video_title, chunk_size, sum_pc, text_chunks,
             sum_i, chunk_summaries, requests, in_flight, replies, summary>>
jobVars == <<entry, punctuated, job_pc, download_success, job_title, saved,
             job_result, bound_args, emitted>>
guiVars == <<url_entered, process_btn_enabled, worker, handled>>
vars == <<trVars, tcVars, sumVars, jobVars, guiVars>>

\* What each stage leaves alone.
nonTrVars == <<tcVars, sumVars, jobVars, guiVars>>
nonTcVars == <<trVars, sumVars, jobVars, guiVars>>
nonSumVars == <<trVars, tcVars, jobVars, guiVars>>

(***************************************************************************)
(* Bounds of the model.                                                    *)
(***************************************************************************)
MaxSegs == 3          \* segments returned by split_on_silence (combiner runs)
MaxDur == 3           \* longest segment, in model milliseconds
MaxChunkMs == 3       \* largest chunk_size_ms tried
MaxTrSegs == 3        \* segments of a scheduled transcription job
MaxPool == 2          \* largest max_workers tried
MaxTextLen == 5       \* longest transcript given to the text chunker
MaxChunkSize == 3     \* largest max_chunk_size tried
MaxSentences == 5     \* sentences of a transcript given to the summarizer
SumChunkSize == 2     \* chunk_size the summarizer is called with

(***************************************************************************)
(* Generic sequence helpers.                                               *)
(***************************************************************************)
SeqsUpTo(S, n) == UNION {[1..m -> S] : m \in 0..n}

RECURSIVE Flatten(_)
Flatten(ss) == IF ss = << >> THEN << >> ELSE Head(ss) \o Flatten(Tail(ss))

RECURSIVE SumLen(_)
SumLen(ss) == IF ss = << >> THEN 0 ELSE Len(Head(ss)) + SumLen(Tail(ss))

\* The segment with 1-based position j and duration d.
Segment(j, d) == [n \in 1..d |-> j]
SegmentsOf(durs) == [j \in 1..Len(durs) |-> Segment(j, durs[j])]

(***************************************************************************)
(* ChunkCombiner: the "Combine small chunks" block of transcribe_audio.    *)
(***************************************************************************)
\* Mutant of Fits: the test forgets the length of the incoming segment.
FitsIgnoringNew(temp_chunk, chunk, limit) == Len(temp_chunk) <= limit

\* The test of the loop body: the segment still fits into temp_chunk.
Fits(temp_chunk, chunk, limit) == Len(temp_chunk) + Len(chunk) <= limit

\* The for loop: state is (combined_chunks, temp_chunk).
RECURSIVE CombineLoop(_, _, _, _)
CombineLoop(segs, combined, temp_chunk, limit) ==
    IF segs = << >> THEN <<combined, temp_chunk>>
    ELSE IF Fits(temp_chunk, Head(segs), limit)
         THEN CombineLoop(Tail(segs), combined, temp_chunk \o Head(segs), limit)
         ELSE CombineLoop(Tail(segs), Append(combined, temp_chunk), Head(segs), limit)

\* Mutant of FlushLast: the length test is inverted.
FlushLastWhenEmpty(combined, temp_chunk) ==
    IF Len(temp_chunk) = 0 THEN Append(combined, temp_chunk) ELSE combined

\* Mutant of FlushLast: the trailing partial chunk is forgotten.
FlushLastDropped(combined, temp_chunk) == combined

\* The trailing "if len(temp_chunk) > 0: combined_chunks.append(temp_chunk)".
FlushLast(combined, temp_chunk) ==
    IF Len(temp_chunk) > 0 THEN Append(combined, temp_chunk) ELSE combined

CombineChunks(segs, limit) ==
    LET st == CombineLoop(segs, << >>, << >>, limit)
    IN  FlushLast(st[1], st[2])

(***************************************************************************)
(* Transcriber.process_chunk.                                              *)
(***************************************************************************)
NoResult == <<0, "pending">>
Letters == <<"a", "b", "c", "d", "e", "f", "g", "h">>

\* What the audio of chunk src says when the recognizer understands it.
Spoken(src) == IF punctuated THEN <<Letters[src], "!">> ELSE <<Letters[src]>>

\* What the collaborators can do to one process_chunk call.
ExportOutcomes == {"ok", "io_error"}
RecognizeOutcomes == {"text", "empty", "rec_error"}

\* Mutant of ChunkFilename: one scratch name for every chunk.
ChunkFilenameShared(i) == <<"temp_chunk_", 0>>

\* Mutant of ChunkFilename: the name is taken from the parity of the index.
ChunkFilenameByParity(i) == <<"temp_chunk_", i % 2>>

\* os.path.join(temp_directory, f"temp_chunk_{i}.wav")
ChunkFilename(i) == <<"temp_chunk_", i>>

\* Mutant of ExportFailed: the result is keyed by the first chunk.
ExportFailedWrongKey(i) == <<1, [has_text |-> FALSE, text |-> << >>, has_error |-> TRUE]>>

\* The outer except: return i, {'error': str(e)} (no 'text' key).
ExportFailed(i) == <<i, [has_text |-> FALSE, text |-> << >>, has_error |-> TRUE]>>

\* Mutant of Recognized: the error message lands in the text.
RecognizedErrorAsText(i, out, src) ==
    <<i, [has_text |-> TRUE,
          text |-> IF out = "text" THEN Spoken(src)
                   ELSE IF out = "rec_error" THEN <<"E">> ELSE << >>,
          has_error |-> out = "rec_error"]>>

\* The inner try/except around recognize_google, then return i, results.
Recognized(i, out, src) ==
    IF out = "rec_error"
    THEN <<i, [has_text |-> TRUE, text |-> << >>, has_error |-> TRUE]>>
    ELSE <<i, [has_text |-> TRUE,
               text |-> IF out = "text" THEN Spoken(src) ELSE << >>,
               has_error |-> FALSE]>>

\* Mutant of AfterRecognition: a failed recognition is tried again.
AfterRecognitionRetry(out) == IF out = "rec_error" THEN "recognize" ELSE "done"

\* process_chunk returns after its one recognize_google call, whether the
\* call returned or raised.
AfterRecognition(out) == "done"

\* No call made yet for a chunk.
NotInvoked == [process_chunk |-> 0, recognize_google |-> 0]

\* chunk.export(chunk_filename): the file now holds the audio of chunk i.
WriteFile(fs, name, i) ==
    [n \in DOMAIN fs \cup {name} |-> IF n = name THEN i ELSE fs[n]]

(***************************************************************************)
(* Transcriber.transcribe_audio.                                           *)
(***************************************************************************)
\* Mutant of UsePool: the number of chunks is not looked at.
UsePoolAnyCount(parallel, k) == parallel

\* if self.config["use_parallel"] and len(chunks) > 1
UsePool(parallel, k) == parallel /\ k > 1

\* Mutant of Assign: every text lands in the first slot.
AssignFirstSlot(tt, res) ==
    IF res[2].has_text THEN [tt EXCEPT ![1] = res[2].text] ELSE tt

\* if 'text' in result_dict: transcribed_text[i] = result_dict['text']
Assign(tt, res) ==
    IF res[2].has_text THEN [tt EXCEPT ![res[1]] = res[2].text] ELSE tt

\* Mutant of NonEmptyTexts: the filter is forgotten.
AllTexts(tt) == tt

\* [text for text in transcribed_text if text]
NonEmptyTexts(tt) == SelectSeq(tt, LAMBDA t : t # << >>)

\* sep.join(list)
RECURSIVE Join(_, _)
Join(list, sep) ==
    IF list = << >> THEN << >>
    ELSE IF Len(list) = 1 THEN list[1]
    ELSE list[1] \o sep \o Join(Tail(list), sep)

\* " ".join([text for text in transcribed_text if text])
JoinTexts(tt) == Join(NonEmptyTexts(tt), <<" ">>)

K == Len(chunks)
\* Chunk i finishes while an earlier chunk is still queued or running.
Overtakes(i) == \E j \in 1..(i - 1) : task[j] # "done"
Running == {i \in 1..K : task[i] = "recognize"}

\* sound = AudioSegment.from_wav(path); split_on_silence; combine small
\* chunks; r = sr.Recognizer(); transcribed_text = [""] * len(chunks); the
\* mode test; in pool mode executor.map submits every chunk at once.
LoadAndCombine ==
    /\ pc = "start"
    /\ chunks' = CombineChunks(segments, chunk_size_ms)
    /\ transcribed_text' = [i \in 1..Len(chunks') |-> << >>]
    /\ task' = [i \in 1..Len(chunks') |-> "queued"]
    /\ future' = [i \in 1..Len(chunks') |-> NoResult]
    /\ outcome' = [i \in 1..Len(chunks') |-> "none"]
    /\ results' = << >>
    /\ loop_i' = 1
    /\ pc' = IF UsePool(use_parallel, Len(chunks')) THEN "parallel" ELSE "sequential"
    /\ out_of_order' = FALSE
    /\ invoked' = [i \in 1..Len(chunks') |-> NotInvoked]
    /\ UNCHANGED <<segments, chunk_size_ms, use_parallel, max_workers, files,
                   full_transcription>>
    /\ UNCHANGED nonTrVars

\* A pool thread takes the oldest queued task and runs process_chunk up to
\* the export of the scratch file.
WorkerExport(i) ==
    /\ pc = "parallel"
    /\ i \in 1..K
    /\ task[i] = "queued"
    /\ \A j \in 1..(i - 1) : task[j] # "queued"
    /\ Cardinality(Running) < max_workers
    /\ \E ex \in ExportOutcomes :
         IF ex = "io_error"
         THEN /\ task' = [task EXCEPT ![i] = "done"]
              /\ future' = [future EXCEPT ![i] = ExportFailed(i)]
              /\ outcome' = [outcome EXCEPT ![i] = "io_error"]
              /\ out_of_order' = (out_of_order \/ Overtakes(i))
              /\ files' = files
         ELSE /\ task' = [task EXCEPT ![i] = "recognize"]
              /\ files' = WriteFile(files, ChunkFilename(i), i)
              /\ UNCHANGED <<future, outcome, out_of_order>>
    /\ UNCHANGED <<segments, chunk_size_ms, use_parallel, max_workers, pc, chunks,
                   results, transcribed_text, loop_i, full_transcription>>
    /\ invoked' = [invoked EXCEPT ![i].process_chunk = @ + 1]
    /\ UNCHANGED nonTrVars

\* The pool thread reads the scratch file back, calls recognize_google and
\* returns.
WorkerRecognize(i) ==
    /\ pc = "parallel"
    /\ i \in 1..K
    /\ task[i] = "recognize"
    /\ \E out \in RecognizeOutcomes :
         /\ future' = [future EXCEPT ![i] = Recognized(i, out, files[ChunkFilename(i)])]
         /\ outcome' = [outcome EXCEPT ![i] = out]
         /\ task' = [task EXCEPT ![i] = AfterRecognition(out)]
    /\ out_of_order' = (out_of_order \/ Overtakes(i))
    /\ UNCHANGED <<segments, chunk_size_ms, use_parallel, max_workers, pc, chunks,
                   files, results, transcribed_text, loop_i, full_transcription>>
    /\ invoked' = [invoked EXCEPT ![i].recognize_google = @ + 1]
    /\ UNCHANGED nonTrVars

\* list(executor.map(...)): the results are taken in submission order, each
\* one as soon as its future is done.
Collect ==
    /\ pc = "parallel"
    /\ Len(results) < K
    /\ future[Len(results) + 1] # NoResult
    /\ results' = Append(results, future[Len(results) + 1])
    /\ pc' = IF Len(results') = K THEN "assign" ELSE "parallel"
    /\ UNCHANGED <<segments, chunk_size_ms, use_parallel, max_workers, chunks, task,
                   files, future, transcribed_text, loop_i, full_transcription,
                   outcome, out_of_order, invoked>>
    /\ UNCHANGED nonTrVars

\* for i, result_dict in results: ...
AssignResult ==
    /\ pc = "assign"
    /\ loop_i <= Len(results)
    /\ transcribed_text' = Assign(transcribed_text, results[loop_i])
    /\ loop_i' = loop_i + 1
    /\ UNCHANGED <<out_of_order, invoked>>
    /\ UNCHANGED <<segments, chunk_size_ms, use_parallel, max_workers, pc, chunks,
                   task, files, future, results, full_transcription, outcome>>
    /\ UNCHANGED nonTrVars

\* Sequential mode: process_chunk of chunk loop_i on the calling thread, up
\* to the export; a failed export returns a result without 'text'.
SeqExport ==
    /\ pc = "sequential"
    /\ loop_i <= K
    /\ task[loop_i] = "queued"
    /\ \E ex \in ExportOutcomes :
         IF ex = "io_error"
         THEN /\ task' = [task EXCEPT ![loop_i] = "done"]
              /\ future' = [future EXCEPT ![loop_i] = ExportFailed(loop_i)]
              /\ outcome' = [outcome EXCEPT ![loop_i] = "io_error"]
              /\ transcribed_text' = Assign(transcribed_text, ExportFailed(loop_i))
              /\ loop_i' = loop_i + 1
              /\ files' = files
         ELSE /\ task' = [task EXCEPT ![loop_i] = "recognize"]
              /\ files' = WriteFile(files, ChunkFilename(loop_i), loop_i)
              /\ UNCHANGED <<future, outcome, transcribed_text, loop_i>>
    /\ UNCHANGED out_of_order
    /\ invoked' = [invoked EXCEPT ![loop_i].process_chunk = @ + 1]
    /\ UNCHANGED <<segments, chunk_size_ms, use_parallel, max_workers, pc, chunks,
                   results, full_transcription>>
    /\ UNCHANGED nonTrVars

\* Sequential mode: recognition of chunk loop_i, return, and the assignment
\* to its slot.
SeqRecognize ==
    /\ pc = "sequential"
    /\ loop_i <= K
    /\ task[loop_i] = "recognize"
    /\ \E out \in RecognizeOutcomes :
         LET res == Recognized(loop_i, out, files[ChunkFilename(loop_i)])
         IN  /\ future' = [future EXCEPT ![loop_i] = res]
             /\ outcome' = [outcome EXCEPT ![loop_i] = out]
             /\ transcribed_text' = Assign(transcribed_text, res)
             /\ task' = [task EXCEPT ![loop_i] = AfterRecognition(out)]
    /\ loop_i' = loop_i + 1
    /\ UNCHANGED out_of_order
    /\ invoked' = [invoked EXCEPT ![loop_i].recognize_google = @ + 1]
    /\ UNCHANGED <<segments, chunk_size_ms, use_parallel, max_workers, pc, chunks,
                   files, results, full_transcription>>
    /\ UNCHANGED nonTrVars

\* full_transcription = " ".join(...); return full_transcription
JoinAndReturn ==
    /\ \/ pc = "assign" /\ loop_i > Len(results)
       \/ pc = "sequential" /\ loop_i > K
    /\ full_transcription' = JoinTexts(transcribed_text)
    /\ pc' = "done"
    /\ UNCHANGED <<out_of_order, invoked>>
    /\ UNCHANGED <<segments, chunk_size_ms, use_parallel, max_workers, chunks, task,
                   files, future, results, transcribed_text, loop_i, outcome>>
    /\ UNCHANGED nonTrVars

(***************************************************************************)
(* Initial states and specifications of the transcription stage.           *)
(***************************************************************************)
\* config["max_workers"] as shipped.
DefaultMaxWorkers == 4

\* Stages that a specification does not exercise stay in these states.
TcIdle ==
    /\ text = << >>
    /\ max_chunk_size = 0
    /\ tc_pc = "idle"
    /\ tc_chunks = << >>

SumIdle ==
    /\ input_text = << >>
    /\ language_code = "none"
    /\ video_title = << >>
    /\ chunk_size = 0
    /\ sum_pc = "idle"
    /\ text_chunks = << >>
    /\ sum_i = 0
    /\ chunk_summaries = << >>
    /\ requests = << >>
    /\ in_flight = 0
    /\ replies = << >>
    /\ summary = << >>

GuiIdle ==
    /\ url_entered = FALSE
    /\ process_btn_enabled = FALSE
    /\ worker = 0
    /\ handled = << >>

JobIdle ==
    /\ entry = "none"
    /\ punctuated = FALSE
    /\ job_pc = "idle"
    /\ download_success = FALSE
    /\ job_title = << >>
    /\ saved = {}
    /\ job_result = "none"
    /\ bound_args = << >>
    /\ emitted = << >>

TrStart(durSet, limitSet, parSet, poolSet) ==
    /\ \E durs \in durSet : segments = SegmentsOf(durs)
    /\ chunk_size_ms \in limitSet
    /\ use_parallel \in parSet
    /\ max_workers \in poolSet
    /\ pc = "start"
    /\ chunks = << >>
    /\ task = << >>
    /\ files = << >>
    /\ future = << >>
    /\ results = << >>
    /\ transcribed_text = << >>
    /\ loop_i = 1
    /\ full_transcription = << >>
    /\ outcome = << >>
    /\ out_of_order = FALSE
    /\ invoked = << >>

TrIdle ==
    /\ segments = << >>
    /\ chunk_size_ms = 0
    /\ use_parallel = FALSE
    /\ max_workers = 0
    /\ pc = "idle"
    /\ chunks = << >>
    /\ task = << >>
    /\ files = << >>
    /\ future = << >>
    /\ results = << >>
    /\ transcribed_text = << >>
    /\ loop_i = 1
    /\ full_transcription = << >>
    /\ outcome = << >>
    /\ out_of_order = FALSE
    /\ invoked = << >>

\* The combiner on every short list of segments and every small maximum.
InitCombine ==
    /\ TrStart(SeqsUpTo(1..MaxDur, MaxSegs), 1..MaxChunkMs, {TRUE},
               {DefaultMaxWorkers})
    /\ TcIdle
    /\ SumIdle
    /\ JobIdle
    /\ GuiIdle

NextCombine == LoadAndCombine

SpecCombine == InitCombine /\ [][NextCombine]_vars

\* A whole transcription job, in both modes and with every pool size up to
\* MaxPool.  The scheduler sees the segments only through the number of
\* chunks they combine to, so two durations and two maxima are tried: they
\* give merged chunks, single-segment chunks and the empty leading chunk.
TrDurations == {1, 2}

InitTranscribe ==
    /\ TrStart(SeqsUpTo(TrDurations, MaxTrSegs), TrDurations, BOOLEAN, 1..MaxPool)
    /\ TcIdle
    /\ SumIdle
    /\ JobIdle
    /\ GuiIdle

NextTranscribe ==
    \/ LoadAndCombine
    \/ \E i \in 1..K : WorkerExport(i)
    \/ \E i \in 1..K : WorkerRecognize(i)
    \/ Collect
    \/ AssignResult
    \/ SeqExport
    \/ SeqRecognize
    \/ JoinAndReturn

SpecTranscribe == InitTranscribe /\ [][NextTranscribe]_vars

(***************************************************************************)
(* Claims about the transcription stage.                                   *)
(***************************************************************************)
Returned == pc = "done"
Failed(i) == outcome[i] \in {"io_error", "rec_error"}

\* process_chunk of chunk i run alone, as the sequential loop runs it: the
\* scratch file it reads is the one it has just written.
ResultAlone(i, out) ==
    IF out = "io_error" THEN ExportFailed(i) ELSE Recognized(i, out, i)

\* The sequential for loop of transcribe_audio over the given outcomes.
RECURSIVE SequentialSlots(_, _, _)
SequentialSlots(i, tt, out) ==
    IF i > Len(out) THEN tt
    ELSE SequentialSlots(i + 1, Assign(tt, ResultAlone(i, out[i])), out)

SequentialTranscript(out) ==
    JoinTexts(SequentialSlots(1, [i \in 1..Len(out) |-> << >>], out))

\* C1: in pool mode, whatever the pool size and the completion order, the
\* returned transcript equals the transcript of a sequential run with the
\* same per-chunk outcomes, and slot i holds the text of chunk i.
C1_OrderPreserved ==
    (Returned /\ UsePool(use_parallel, K)) =>
        /\ full_transcription = SequentialTranscript(outcome)
        /\ \A i \in 1..K :
             transcribed_text[i] = IF outcome[i] = "text" THEN Spoken(i) ELSE << >>

\* A pool run of three chunks, two workers, in which a later chunk finished
\* before an earlier one and every chunk was recognised.
C1_Witness ==
    /\ Returned
    /\ UsePool(use_parallel, K)
    /\ max_workers = 2
    /\ out_of_order
    /\ full_transcription = <<"a", " ", "b", " ", "c">>

\* The texts of the chunks that were recognised with a non-empty text, in
\* index order, each but the first preceded by one space.
RECURSIVE SurvivorsFrom(_, _)
SurvivorsFrom(i, first) ==
    IF i > K THEN << >>
    ELSE IF outcome[i] = "text"
         THEN (IF first THEN << >> ELSE <<" ">>) \o Spoken(i) \o SurvivorsFrom(i + 1, FALSE)
         ELSE SurvivorsFrom(i + 1, first)

\* C2: whatever subset of chunks fails (recognition error or scratch-file
\* error), in both modes the job returns and the transcript is the in-order
\* single-space join of the texts of the other chunks; unless it has
\* returned, the job can take a step.
C2_FailureIsolated ==
    /\ Returned => full_transcription = SurvivorsFrom(1, TRUE)
    /\ Returned \/ ENABLED NextTranscribe

\* Chunks a, b, c with b failing in the recognizer give "a c".
C2_Witness ==
    /\ Returned
    /\ K = 3
    /\ outcome = <<"text", "rec_error", "text">>
    /\ full_transcription = <<"a", " ", "c">>

\* Position in the transcript just before the text of slot i.
NonEmptySlots == {i \in 1..K : transcribed_text[i] # << >>}
RECURSIVE OffsetOf(_)
OffsetOf(i) ==
    IF i <= 1 THEN 0
    ELSE OffsetOf(i - 1)
         + (IF (i - 1) \in NonEmptySlots THEN Len(transcribed_text[i - 1]) + 1 ELSE 0)

\* C3: the transcript consists of the non-empty slots in increasing index,
\* one space between neighbours; empty slots add nothing, so there is no
\* leading, trailing or doubled space, and all-empty gives the empty text.
C3_Assembly ==
    Returned =>
        /\ Len(full_transcription) =
              IF NonEmptySlots = {} THEN 0
              ELSE SumLen(transcribed_text) + Cardinality(NonEmptySlots) - 1
        /\ \A i \in NonEmptySlots :
              /\ SubSeq(full_transcription, OffsetOf(i) + 1,
                        OffsetOf(i) + Len(transcribed_text[i])) = transcribed_text[i]
              /\ OffsetOf(i) > 0 => full_transcription[OffsetOf(i)] = " "
        /\ \A p \in 1..Len(full_transcription) :
              full_transcription[p] = " " =>
                 /\ p > 1 /\ p < Len(full_transcription)
                 /\ full_transcription[p + 1] # " "

\* Empty slots at the front, in the middle and at the end of the array.
C3_Witness ==
    /\ Returned
    /\ K = 4
    /\ transcribed_text = << << >>, <<"b">>, << >>, <<"d">> >>
    /\ full_transcription = <<"b", " ", "d">>

(***************************************************************************)
(* Claims about the chunk combiner.                                        *)
(***************************************************************************)
Combined == pc \notin {"idle", "start"}

\* C4: every chunk lasts at most chunk_size_ms, except a chunk that is
\* exactly one segment which alone is longer than chunk_size_ms.
C4_ChunkBound ==
    Combined =>
        \A c \in 1..K :
            \/ Len(chunks[c]) <= chunk_size_ms
            \/ \E j \in 1..Len(segments) :
                  /\ chunks[c] = segments[j]
                  /\ Len(segments[j]) > chunk_size_ms

\* Two segments merged into a full chunk, then an oversized segment passed
\* through on its own.
C4_Witness ==
    /\ Combined
    /\ chunk_size_ms = 2
    /\ Len(segments) = 3
    /\ K = 2
    /\ chunks[1] = segments[1] \o segments[2]
    /\ chunks[2] = segments[3]
    /\ Len(chunks[2]) = 3

\* C5: the chunks, concatenated in order, are the segments concatenated in
\* order (nothing dropped, duplicated or moved), and the trailing chunk is
\* emitted however short: the last chunk ends with the last segment.
C5_OrderKept ==
    Combined =>
        /\ Flatten(chunks) = Flatten(segments)
        /\ segments # << >> =>
              /\ K >= 1
              /\ chunks[K] # << >>
              /\ chunks[K][Len(chunks[K])] = Len(segments)

\* A trailing chunk shorter than the maximum after two full ones.
C5_Witness ==
    /\ Combined
    /\ chunk_size_ms = 3
    /\ K = 3
    /\ Len(chunks[1]) = 3
    /\ Len(chunks[3]) = 1

(***************************************************************************)
(* TextChunker: Summarizer.split_text_into_chunks.                         *)
(***************************************************************************)
\* The characters a transcript is made of here: a letter, the full stop,
\* and the three characters of the splitting pattern.
Alphabet == {"a", ".", "!", "?", "danda"}

\* sentence_boundaries = r'([।!?])'
Terminators == {"danda", "!", "?"}

\* re.split with the capturing group: fragment, terminator, fragment, ...,
\* fragment; always an odd number of pieces, fragments possibly empty.
RECURSIVE ReSplitFrom(_, _)
ReSplitFrom(t, acc) ==
    IF t = << >> THEN acc
    ELSE IF Head(t) \in Terminators
         THEN ReSplitFrom(Tail(t), acc \o << <<Head(t)>>, << >> >>)
         ELSE ReSplitFrom(Tail(t), [acc EXCEPT ![Len(acc)] = @ \o <<Head(t)>>])

\* Mutant of ReSplit: the pattern without its capturing group, so the
\* terminators are not returned.
ReSplitNoCapture(t) ==
    LET pieces == ReSplitFrom(t, << << >> >>)
    IN  [n \in 1..((Len(pieces) + 1) \div 2) |-> pieces[2 * n - 1]]

ReSplit(t) == ReSplitFrom(t, << << >> >>)

\* for i in range(0, len(sentences)-1, 2): the body, i being the 0-based
\* Python index.
RECURSIVE PairLoop(_, _, _)
PairLoop(sentences, i, combined) ==
    IF i >= Len(sentences) - 1 THEN combined
    ELSE PairLoop(sentences, i + 2,
                  Append(combined,
                         IF i + 1 < Len(sentences)
                         THEN sentences[i + 1] \o sentences[i + 2]
                         ELSE sentences[i + 1]))

\* Mutant of TrailingFragment: the fragment after the last terminator is
\* forgotten.
TrailingFragmentDropped(sentences, combined) == combined

\* if len(sentences) % 2 == 1: combined_sentences.append(sentences[-1])
TrailingFragment(sentences, combined) ==
    IF Len(sentences) % 2 = 1
    THEN Append(combined, sentences[Len(sentences)])
    ELSE combined

CombinedSentences(sentences) ==
    TrailingFragment(sentences, PairLoop(sentences, 0, << >>))

\* Mutant of Overflows: the test forgets the length of the incoming sentence.
OverflowsIgnoringNew(current_chunk, sentence, limit) == Len(current_chunk) > limit

\* if len(current_chunk) + len(sentence) > max_chunk_size
Overflows(current_chunk, sentence, limit) ==
    Len(current_chunk) + Len(sentence) > limit

\* for sentence in combined_sentences: state is (chunks, current_chunk).
RECURSIVE ChunkLoop(_, _, _, _)
ChunkLoop(sentences, out, current_chunk, limit) ==
    IF sentences = << >> THEN <<out, current_chunk>>
    ELSE IF Overflows(current_chunk, Head(sentences), limit)
         THEN ChunkLoop(Tail(sentences),
                        IF current_chunk # << >> THEN Append(out, current_chunk) ELSE out,
                        Head(sentences), limit)
         ELSE ChunkLoop(Tail(sentences), out, current_chunk \o Head(sentences), limit)

\* Mutant of SplitTextIntoChunks: an empty text gives no chunk.
SplitTextIntoChunksNoneForEmpty(t, limit) ==
    IF t = << >> THEN << >>
    ELSE IF Len(t) <= limit THEN <<t>>
    ELSE LET st == ChunkLoop(CombinedSentences(ReSplit(t)), << >>, << >>, limit)
         IN  IF st[2] # << >> THEN Append(st[1], st[2]) ELSE st[1]

SplitTextIntoChunks(t, limit) ==
    IF Len(t) <= limit THEN <<t>>
    ELSE LET st == ChunkLoop(CombinedSentences(ReSplit(t)), << >>, << >>, limit)
         IN  IF st[2] # << >> THEN Append(st[1], st[2]) ELSE st[1]

\* One call of split_text_into_chunks.
SplitText ==
    /\ tc_pc = "call"
    /\ tc_chunks' = SplitTextIntoChunks(text, max_chunk_size)
    /\ tc_pc' = "returned"
    /\ UNCHANGED <<text, max_chunk_size>>
    /\ UNCHANGED nonTcVars

\* Every transcript of up to MaxTextLen characters, every limit up to
\* MaxChunkSize.
InitChunker ==
    /\ text \in SeqsUpTo(Alphabet, MaxTextLen)
    /\ max_chunk_size \in 1..MaxChunkSize
    /\ tc_pc = "call"
    /\ tc_chunks = << >>
    /\ TrIdle
    /\ SumIdle
    /\ JobIdle
    /\ GuiIdle

NextChunker == SplitText

SpecChunker == InitChunker /\ [][NextChunker]_vars

(***************************************************************************)
(* Claims about the text chunker.                                          *)
(***************************************************************************)
TcReturned == tc_pc = "returned"
Last(t) == t[Len(t)]

\* C6: the chunks, concatenated in order, are the transcript.
C6_RoundTrip == TcReturned => Flatten(tc_chunks) = text

\* A transcript with a leading terminator and consecutive terminators that
\* is split into several chunks.
C6_Witness ==
    /\ TcReturned
    /\ text = <<"!", "a", "?", "danda", "a">>
    /\ max_chunk_size = 2
    /\ Len(tc_chunks) = 3

\* The terminator set of the design: the full stop as well.
SentenceEnds == Terminators \cup {"."}

\* C7: when the transcript exceeds the limit, every chunk but the last ends
\* with a terminator, and no chunk starts with a terminator whose sentence
\* fragment ends the previous chunk.
C7_SentenceBoundary ==
    (TcReturned /\ Len(text) > max_chunk_size) =>
        /\ \A c \in 1..(Len(tc_chunks) - 1) :
              /\ tc_chunks[c] # << >>
              /\ Last(tc_chunks[c]) \in Terminators
        /\ \A c \in 2..Len(tc_chunks) :
              (tc_chunks[c] # << >> /\ Head(tc_chunks[c]) \in SentenceEnds) =>
                  (tc_chunks[c - 1] # << >> /\ Last(tc_chunks[c - 1]) \in SentenceEnds)

\* Three sentences, the second empty, over a limit of two characters.
C7_Witness ==
    /\ TcReturned
    /\ text = <<"a", "!", "!", "a", "a">>
    /\ max_chunk_size = 2
    /\ tc_chunks = << <<"a", "!">>, <<"!">>, <<"a", "a">> >>
\* The transcript is made of sentences that each end with a full stop and
\* are each shorter than the limit.
FullStopSentencesShort ==
    /\ text # << >>
    /\ \A p \in 1..Len(text) : text[p] \in {"a", "."}
    /\ Last(text) = "."
    /\ \A s \in 1..Len(text) :
          (s = 1 \/ text[s - 1] = ".") =>
              \E q \in s..(s + max_chunk_size - 2) : q <= Len(text) /\ text[q] = "."

\* C8: the full stop is a sentence terminator: a transcript longer than the
\* limit whose sentences each end with "." and are each shorter than the
\* limit is split into more than one chunk, every split directly after a ".".
C8_FullStopSplits ==
    (TcReturned /\ Len(text) > max_chunk_size /\ FullStopSentencesShort) =>
        /\ Len(tc_chunks) > 1
        /\ \A c \in 1..(Len(tc_chunks) - 1) :
              tc_chunks[c] # << >> /\ Last(tc_chunks[c]) = "."

\* Length of the first sentence unit of a chunk: up to and including its
\* first terminator, or the whole chunk when it has none.
FirstUnitLen(t) ==
    IF \E p \in 1..Len(t) : t[p] \in Terminators
    THEN CHOOSE p \in 1..Len(t) :
            /\ t[p] \in Terminators
            /\ \A q \in 1..(p - 1) : t[q] \notin Terminators
    ELSE Len(t)

\* C9: a transcript within the limit comes back as the one chunk; otherwise
\* a chunk is longer than the limit only if it is one single sentence unit
\* (no terminator before its last character), and the accumulation is
\* greedy: a chunk was closed only because the next unit did not fit.
C9_SizeBound ==
    TcReturned =>
        /\ Len(text) <= max_chunk_size => tc_chunks = <<text>>
        /\ Len(text) > max_chunk_size =>
              /\ \A c \in 1..Len(tc_chunks) :
                    \/ Len(tc_chunks[c]) <= max_chunk_size
                    \/ \A p \in 1..(Len(tc_chunks[c]) - 1) :
                          tc_chunks[c][p] \notin Terminators
              /\ \A c \in 1..(Len(tc_chunks) - 1) :
                    Len(tc_chunks[c]) + FirstUnitLen(tc_chunks[c + 1]) > max_chunk_size

\* Two one-character sentences fill a chunk; the oversized third sentence
\* is a chunk of its own.
C9_Witness ==
    /\ TcReturned
    /\ text = <<"!", "?", "a", "a", "a">>
    /\ max_chunk_size = 2
    /\ tc_chunks = << <<"!", "?">>, <<"a", "a", "a">> >>

(***************************************************************************)
(* Summarizer.get_prompts and Summarizer.summarize_text.                   *)
(***************************************************************************)
\* CONFIG["languages"]
Languages == {<<"bn-BD", "Bangla">>, <<"en-US", "English">>, <<"hi-IN", "Hindi">>}

\* next((lang["name"] for lang in languages if lang["code"] == code),
\*      "the detected language")
LanguageDisplayName(code) ==
    IF \E l \in Languages : l[1] = code
    THEN (CHOOSE l \in Languages : l[1] = code)[2]
    ELSE "the detected language"

\* A prompt is its template, the language it demands, and the title it
\* embeds (only the two document templates embed the title).
Prompt(template, code, title) ==
    [template |-> template,
     language |-> LanguageDisplayName(code),
     title |-> IF template \in {"consolidation", "single_chunk"} THEN title ELSE << >>]

\* The dictionary returned by get_prompts.
GetPrompts(code, title) ==
    [k \in {"first_chunk", "middle_chunk", "last_chunk", "consolidation"} |->
        Prompt(k, code, title)]

\* Mutant of PromptKey: the test for the last chunk is off by one.
PromptKeyOffByOne(i, n) ==
    IF i = 0 THEN "first_chunk"
    ELSE IF i = n THEN "last_chunk"
    ELSE "middle_chunk"

\* The if / elif / else on i inside the chunk loop (i is 0-based).
PromptKey(i, n) ==
    IF i = 0 THEN "first_chunk"
    ELSE IF i = n - 1 THEN "last_chunk"
    ELSE "middle_chunk"

\* The text the generative service returns to the n-th request.
Response(n) == <<"R", Letters[n]>>

\* f"[{error_message}: {str(e)}]"
ErrorMarker == <<"[", "Error processing this section", ": ", "e", "]">>

\* Mutant of JoinedFragments: the fragments run together.
JoinedFragmentsNoBlank(frags) == Flatten(frags)

\* "\n\n".join(chunk_summaries)
JoinedFragments(frags) == Join(frags, <<"\n\n">>)

\* Mutant of TitledFragment: the title heading is forgotten.
TitledFragmentNoTitle(title, frag) == frag \o <<"\n">>

\* f"# {video_title}\n\n{chunk_summaries[0]}\n"
TitledFragment(title, frag) == <<"# ">> \o title \o <<"\n\n">> \o frag \o <<"\n">>

\* text_chunks = self.split_text_into_chunks(input_text, chunk_size);
\* prompts = self.get_prompts(...); chunk_summaries = []
SumSplit ==
    /\ sum_pc = "start"
    /\ text_chunks' = SplitTextIntoChunks(input_text, chunk_size)
    /\ sum_i' = 0
    /\ chunk_summaries' = << >>
    /\ sum_pc' = IF Len(text_chunks') > 0 THEN "loop" ELSE "reduce"
    /\ UNCHANGED <<input_text, language_code, video_title, chunk_size, requests,
                   in_flight, replies, summary>>
    /\ UNCHANGED nonSumVars

\* Mutant of AwaitReply: the call is fired without waiting for its reply.
AwaitReplySkipped(waiting) == "loop"

\* generate_content is a blocking call: the caller stays in the call until
\* it returns or raises.
AwaitReply(waiting) == waiting

\* The chunk loop up to the generate_content call for chunk i.
CallChunk ==
    /\ sum_pc = "loop"
    /\ requests' = Append(requests,
          [prompt |-> GetPrompts(language_code, video_title)[
                          PromptKey(sum_i, Len(text_chunks))],
           body |-> text_chunks[sum_i + 1]])
    /\ in_flight' = in_flight + 1
    /\ sum_pc' = AwaitReply("chunk_call")
    /\ UNCHANGED <<input_text, language_code, video_title, chunk_size, text_chunks,
                   sum_i, chunk_summaries, replies, summary>>
    /\ UNCHANGED nonSumVars

\* Mutant of AppendFragment: a failed call leaves no fragment.
AppendFragmentSkipFailed(frags, ok, n) ==
    IF ok THEN Append(frags, Response(n)) ELSE frags

\* chunk_summaries.append(response.text) in the try,
\* chunk_summaries.append(f"[{error_message}: {str(e)}]") in the except.
AppendFragment(frags, ok, n) ==
    Append(frags, IF ok THEN Response(n) ELSE ErrorMarker)

\* The call returns or raises; either way one fragment is appended and the
\* loop moves on.
ChunkReturn ==
    /\ sum_pc = "chunk_call"
    /\ \E ok \in BOOLEAN :
          /\ chunk_summaries' = AppendFragment(chunk_summaries, ok, Len(requests))
          /\ replies' = Append(replies, IF ok THEN "ok" ELSE "error")
    /\ in_flight' = in_flight - 1
    /\ sum_i' = sum_i + 1
    /\ sum_pc' = IF sum_i + 1 < Len(text_chunks) THEN "loop" ELSE "reduce"
    /\ UNCHANGED <<input_text, language_code, video_title, chunk_size, text_chunks,
                   requests, summary>>
    /\ UNCHANGED nonSumVars

\* Mutant of ReducePrompt: the consolidation template whatever the count.
ReducePromptAlwaysConsolidation(n, code, title) == GetPrompts(code, title)["consolidation"]

\* if len(chunk_summaries) > 1: prompts['consolidation'], else the
\* single_chunk_prompt built in the else branch.
ReducePrompt(n, code, title) ==
    IF n > 1 THEN GetPrompts(code, title)["consolidation"]
    ELSE Prompt("single_chunk", code, title)

\* After the loop: the consolidation request when there is more than one
\* fragment, else the single-chunk request on chunk_summaries[0] (which
\* raises IndexError, also from the except branch, when there is none).
CallReduce ==
    /\ sum_pc = "reduce"
    /\ IF Len(chunk_summaries) > 1
       THEN /\ requests' = Append(requests,
                  [prompt |-> ReducePrompt(Len(chunk_summaries), language_code,
                                           video_title),
                   body |-> Flatten(chunk_summaries)])
            /\ in_flight' = in_flight + 1
            /\ sum_pc' = AwaitReply("reduce_call")
       ELSE IF Len(chunk_summaries) = 1
       THEN /\ requests' = Append(requests,
                  [prompt |-> ReducePrompt(Len(chunk_summaries), language_code,
                                           video_title),
                   body |-> chunk_summaries[1]])
            /\ in_flight' = in_flight + 1
            /\ sum_pc' = AwaitReply("reduce_call")
       ELSE /\ sum_pc' = "raised"
            /\ UNCHANGED <<requests, in_flight>>
    /\ UNCHANGED <<input_text, language_code, video_title, chunk_size, text_chunks,
                   sum_i, chunk_summaries, replies, summary>>
    /\ UNCHANGED nonSumVars

\* Mutant of AfterReduce: a failed reduction call propagates.
AfterReduceRaises(ok) == IF ok THEN "returned" ELSE "raised"

\* return response.text in the try, return <fallback> in the except: the
\* reduction step returns whether its call succeeded or not.
AfterReduce(ok) == "returned"

\* The reduction call returns (the response is the document) or raises (the
\* fallback document is returned).
ReduceReturn ==
    /\ sum_pc = "reduce_call"
    /\ \E ok \in BOOLEAN :
          /\ summary' = IF ok THEN Response(Len(requests))
                        ELSE IF Len(chunk_summaries) > 1
                             THEN JoinedFragments(chunk_summaries)
                             ELSE TitledFragment(video_title, chunk_summaries[1])
          /\ replies' = Append(replies, IF ok THEN "ok" ELSE "error")
          /\ sum_pc' = AfterReduce(ok)
    /\ in_flight' = in_flight - 1
    /\ UNCHANGED <<input_text, language_code, video_title, chunk_size, text_chunks,
                   sum_i, chunk_summaries, requests>>
    /\ UNCHANGED nonSumVars

\* The transcript of n one-letter sentences.
RECURSIVE Sentences(_)
Sentences(n) == IF n = 0 THEN << >> ELSE <<"a", "!">> \o Sentences(n - 1)

\* Transcripts of 0..MaxSentences sentences, a language of the menu and one
\* that is not, chunk_size SumChunkSize.
InitSummarize ==
    /\ input_text \in {Sentences(n) : n \in 0..MaxSentences}
    /\ language_code \in {"bn-BD", "fr-FR"}
    /\ video_title = <<"T">>
    /\ chunk_size = SumChunkSize
    /\ sum_pc = "start"
    /\ text_chunks = << >>
    /\ sum_i = 0
    /\ chunk_summaries = << >>
    /\ requests = << >>
    /\ in_flight = 0
    /\ replies = << >>
    /\ summary = << >>
    /\ TrIdle
    /\ TcIdle
    /\ JobIdle
    /\ GuiIdle

NextSummarize ==
    \/ SumSplit
    \/ CallChunk
    \/ ChunkReturn
    \/ CallReduce
    \/ ReduceReturn

SpecSummarize == InitSummarize /\ [][NextSummarize]_vars

(***************************************************************************)
(* Claims about the summarizer.                                            *)
(***************************************************************************)
SumReturned == sum_pc = "returned"
NChunks == Len(text_chunks)
Min(a, b) == IF a <= b THEN a ELSE b

\* The label of the chunk at 1-based position j among k chunks.
PositionLabel(j, k) ==
    IF j = 1 THEN "first_chunk"
    ELSE IF j = k THEN "last_chunk"
    ELSE "middle_chunk"

\* Templates of the requests issued so far for the chunks, in order.
ChunkLabels ==
    [j \in 1..Min(Len(requests), NChunks) |-> requests[j].prompt.template]

\* C10: with k >= 2 chunks, the request for the chunk at index 0 carries
\* the first template, the one at index k-1 the last template and every
\* other the middle template, each with its own chunk as text; 5 chunks
\* give first, middle, middle, middle, last and 2 give first, last.
C10_PositionalTagging ==
    NChunks >= 2 =>
        /\ \A j \in 1..Min(Len(requests), NChunks) :
              /\ ChunkLabels[j] = PositionLabel(j, NChunks)
              /\ requests[j].body = text_chunks[j]
        /\ SumReturned => Len(ChunkLabels) = NChunks
        /\ (SumReturned /\ NChunks = 5) =>
              ChunkLabels = <<"first_chunk", "middle_chunk", "middle_chunk",
                              "middle_chunk", "last_chunk">>
        /\ (SumReturned /\ NChunks = 2) =>
              ChunkLabels = <<"first_chunk", "last_chunk">>

\* A finished summarization of five chunks.
C10_Witness ==
    /\ SumReturned
    /\ NChunks = 5
    /\ ChunkLabels = <<"first_chunk", "middle_chunk", "middle_chunk",
                       "middle_chunk", "last_chunk">>

(***************************************************************************)
(* Claims about the reduction step of summarize_text.                      *)
(***************************************************************************)

\* Templates of all the requests issued so far, in order.
RequestTemplates == [j \in 1..Len(requests) |-> requests[j].prompt.template]

LoopDone == sum_pc \in {"reduce", "reduce_call", "returned", "raised"}

\* C12: the chunk loop leaves exactly one fragment per chunk, in chunk
\* order, whatever calls fail: the response of the chunk's call when it
\* succeeded, the error marker when it failed.
C12_OneFragmentPerChunk ==
    /\ Len(chunk_summaries) = Min(Len(replies), NChunks)
    /\ \A j \in 1..Len(chunk_summaries) :
          /\ replies[j] = "ok" => chunk_summaries[j] = Response(j)
          /\ replies[j] = "error" => chunk_summaries[j] = ErrorMarker
    /\ LoopDone => Len(chunk_summaries) = NChunks

\* Three chunks whose first and last calls failed.
C12_Witness ==
    /\ SumReturned
    /\ NChunks = 3
    /\ SubSeq(replies, 1, 3) = <<"error", "ok", "error">>
    /\ chunk_summaries = <<ErrorMarker, Response(2), ErrorMarker>>

\* The fragments with one blank line between neighbours.
WithBlankLines(frags) ==
    LET upto[k \in 1..Len(frags)] ==
            IF k = 1 THEN frags[1]
            ELSE upto[k - 1] \o <<"\n\n">> \o frags[k]
    IN  IF Len(frags) = 0 THEN << >> ELSE upto[Len(frags)]

\* C13: with more than one fragment exactly one consolidation request is
\* issued, after the chunk requests and on the fragments; the result is its
\* response when it succeeds and the fragments joined with blank lines when
\* it fails; nothing is raised.
C13_Consolidation ==
    Len(chunk_summaries) > 1 =>
        /\ sum_pc # "raised"
        /\ \A j \in 1..Min(Len(requests), NChunks) :
              RequestTemplates[j] # "consolidation"
        /\ SumReturned =>
              LET n == Len(requests) IN
              /\ n = NChunks + 1
              /\ RequestTemplates[n] = "consolidation"
              /\ requests[n].body = Flatten(chunk_summaries)
              /\ replies[n] = "ok" => summary = Response(n)
              /\ replies[n] = "error" => summary = WithBlankLines(chunk_summaries)

\* Two fragments whose consolidation call failed.
C13_Witness ==
    /\ SumReturned
    /\ NChunks = 2
    /\ replies = <<"ok", "ok", "error">>
    /\ summary = Response(1) \o <<"\n\n">> \o Response(2)

\* C14: with one fragment exactly one single-chunk enhancement request is
\* issued, under a template that is not the consolidation template, on the
\* fragment; the result is its response when it succeeds and the fragment
\* under a title heading when it fails; nothing is raised.
C14_SingleChunkEnhancement ==
    (LoopDone /\ Len(chunk_summaries) = 1) =>
        /\ sum_pc # "raised"
        /\ SumReturned =>
              /\ Len(requests) = 2
              /\ requests[2].prompt.template = "single_chunk"
              /\ requests[2].prompt #
                     GetPrompts(language_code, video_title)["consolidation"]
              /\ requests[1].prompt.template # "single_chunk"
              /\ requests[2].body = chunk_summaries[1]
              /\ replies[2] = "ok" => summary = Response(2)
              /\ replies[2] = "error" =>
                     summary = <<"# ">> \o video_title \o <<"\n\n">>
                                   \o chunk_summaries[1] \o <<"\n">>

\* One fragment whose enhancement call failed.
C14_Witness ==
    /\ SumReturned
    /\ NChunks = 1
    /\ replies = <<"ok", "error">>
    /\ summary = <<"# ", "T", "\n\n", "R", Letters[1], "\n">>

\* C20: the generative calls are made one at a time: never more than one
\* in flight, the chunk calls in chunk order, and the reduction request
\* only once every chunk call has come back.
C20_Sequential ==
    /\ in_flight \in {0, 1}
    /\ in_flight = Len(requests) - Len(replies)
    /\ Len(requests) <= NChunks + 1
    /\ \A j \in 1..Min(Len(requests), NChunks) : requests[j].body = text_chunks[j]
    /\ Len(requests) > NChunks =>
          /\ Len(chunk_summaries) = NChunks
          /\ Len(replies) >= NChunks

\* The reduction call of a three-chunk transcript is in flight, alone.
C20_Witness ==
    /\ sum_pc = "reduce_call"
    /\ NChunks = 3
    /\ Len(replies) = 3
    /\ in_flight = 1

(***************************************************************************)
(* Claims about the scratch files of process_chunk.                        *)
(***************************************************************************)

\* C19: the scratch file of a chunk is named by the chunk's index alone,
\* so chunks of different indices have different files, and a worker that
\* is between its export and its read finds in its file the audio it wrote
\* itself: no other running worker writes or reads that file.
C19_ScratchIsolation ==
    /\ \A i, j \in 1..K : i # j => ChunkFilename(i) # ChunkFilename(j)
    /\ pc = "parallel" =>
          \A i \in Running :
              /\ ChunkFilename(i) \in DOMAIN files
              /\ files[ChunkFilename(i)] = i
              /\ \A j \in Running \ {i} : ChunkFilename(j) # ChunkFilename(i)

\* Two pool workers hold their scratch files at the same time.
C19_Witness ==
    /\ pc = "parallel"
    /\ K = 3
    /\ Running = {1, 3}
    /\ files[ChunkFilename(1)] = 1
    /\ files[ChunkFilename(3)] = 3

(***************************************************************************)
(* The job: YouTubeProcessor.process_video (entry "cli") and               *)
(* WorkerThread.run (entry "gui").  Both download, transcribe and          *)
(* summarize in turn; job_result is the value process_video returns, or    *)
(* the success flag WorkerThread.run emits with complete_signal.           *)
(***************************************************************************)
MaxJobSegs == 3       \* segments of the audio of a whole job

\* The language the job is run for.
JobLanguages == {"bn-BD"}

\* Mutant of DownloadFailed: the download's success flag is not looked at.
DownloadFailedIgnored(ok) == FALSE

\* if not download_success
DownloadFailed(ok) == ~ok

\* Mutant of NotTranscribed: the emptiness test is left out.
NotTranscribedNever(t) == FALSE

\* if not transcription
NotTranscribed(t) == t = << >>

\* A file written by save_to_markdown.
SavedFile(kind, content) == [file |-> kind, content |-> content]

\* FileManager.save_to_markdown: the file is written, or the error is
\* logged and swallowed.
SaveToMarkdown(fs, kind, content, ok) ==
    IF ok THEN fs \cup {SavedFile(kind, content)} ELSE fs

\* Python values, with their type.
PyStr(v) == [type |-> "str", val |-> v]
PyInt(n) == [type |-> "int", val |-> n]

\* def summarize_text(self, input_text, language_code, video_title,
\* chunk_size=4000): the positional arguments of a call are bound to the
\* parameters in this order; SumChunkSize stands for the default.
BindPositional(actuals) ==
    [input_text |-> actuals[1],
     language_code |-> actuals[2],
     video_title |-> actuals[3],
     chunk_size |-> IF Len(actuals) >= 4 THEN actuals[4] ELSE PyInt(SumChunkSize)]

\* len(text) <= max_chunk_size is defined for an int; for a str it raises
\* TypeError.
LenComparable(v) == v.type = "int"

\* self.source_language and self.output_language of the worker thread.
GuiSourceLanguage == "bn-BD"
GuiOutputLanguage == "en-US"

\* WorkerThread.run emits its signals; process_video has none.
Emit(events) == IF entry = "gui" THEN emitted \o events ELSE emitted

\* Mutant of ExceptEmits: the handler only logs.
ExceptEmitsNothing == << >>

\* run's except Exception: update_progress_signal.emit(0, ...) and
\* complete_signal.emit(False, error_msg).
ExceptEmits == <<"progress(0)", "complete(False)">>

\* Step 1: download_from_youtube returns (True, title) or, on any
\* exception, (False, "Unknown Title"); a failed download ends the job.
Download ==
    /\ job_pc = "start"
    /\ \E ok \in BOOLEAN :
          /\ download_success' = ok
          /\ job_title' = IF ok THEN <<"T">> ELSE <<"Unknown Title">>
          /\ IF DownloadFailed(ok)
             THEN /\ job_result' = "failure"
                  /\ job_pc' = "returned"
                  /\ pc' = pc
                  /\ emitted' = Emit(<<"progress(10)", "progress(20)",
                                       "progress(0)", "complete(False)">>)
             ELSE /\ job_result' = job_result
                  /\ job_pc' = "transcribing"
                  /\ pc' = "start"
                  /\ emitted' = Emit(<<"progress(10)", "progress(20)",
                                       "progress(40)", "progress(50)">>)
    /\ UNCHANGED <<entry, punctuated, saved, bound_args>>
    /\ UNCHANGED <<segments, chunk_size_ms, use_parallel, max_workers, chunks, task,
                   files, future, results, transcribed_text, loop_i,
                   full_transcription, outcome, out_of_order, invoked>>
    /\ UNCHANGED <<tcVars, sumVars>>
    /\ UNCHANGED guiVars

\* Step 2 has returned an empty transcript: the job ends in failure.
EmptyTranscript ==
    /\ job_pc = "transcribing"
    /\ pc = "done"
    /\ NotTranscribed(full_transcription)
    /\ job_result' = "failure"
    /\ job_pc' = "returned"
    /\ emitted' = Emit(<<"progress(0)", "complete(False)">>)
    /\ UNCHANGED <<entry, punctuated, download_success, job_title, saved, bound_args>>
    /\ UNCHANGED <<trVars, tcVars, sumVars>>
    /\ UNCHANGED guiVars

\* process_video with a transcript: the transcript is saved and
\* summarize_text(transcription, language_code, video_title) is entered
\* with the default chunk_size.
StartSummary ==
    /\ entry = "cli"
    /\ job_pc = "transcribing"
    /\ pc = "done"
    /\ ~NotTranscribed(full_transcription)
    /\ \E ok \in BOOLEAN :
          saved' = SaveToMarkdown(saved, "transcription", full_transcription, ok)
    /\ \E code \in JobLanguages :
          LET args == BindPositional(<<PyStr(full_transcription), PyStr(code),
                                       PyStr(job_title)>>)
          IN  /\ bound_args' = args
              /\ input_text' = args.input_text.val
              /\ language_code' = args.language_code.val
              /\ video_title' = args.video_title.val
              /\ chunk_size' = args.chunk_size.val
    /\ sum_pc' = "start"
    /\ job_pc' = "summarizing"
    /\ UNCHANGED <<text_chunks, sum_i, chunk_summaries, requests, in_flight, replies,
                   summary>>
    /\ UNCHANGED <<entry, punctuated, download_success, job_title, job_result,
                   emitted>>
    /\ UNCHANGED <<trVars, tcVars>>
    /\ UNCHANGED guiVars

\* WorkerThread.run with a transcript: no transcript file is written;
\* summarizer.summarize_text(transcription, self.source_language,
\* self.output_language, video_title) is called with four positional
\* arguments.  When chunk_size is not an int, len(text) <= max_chunk_size
\* raises TypeError in split_text_into_chunks, before any request, and
\* run's except handles it.
GuiSummarize ==
    /\ entry = "gui"
    /\ job_pc = "transcribing"
    /\ pc = "done"
    /\ ~NotTranscribed(full_transcription)
    /\ LET args == BindPositional(<<PyStr(full_transcription),
                                    PyStr(GuiSourceLanguage),
                                    PyStr(GuiOutputLanguage), PyStr(job_title)>>)
       IN  /\ bound_args' = args
           /\ IF LenComparable(args.chunk_size)
              THEN /\ input_text' = args.input_text.val
                   /\ language_code' = args.language_code.val
                   /\ video_title' = args.video_title.val
                   /\ chunk_size' = args.chunk_size.val
                   /\ sum_pc' = "start"
                   /\ job_pc' = "summarizing"
                   /\ job_result' = job_result
                   /\ emitted' = Emit(<<"progress(70)", "progress(75)">>)
              ELSE /\ sum_pc' = "raised"
                   /\ job_pc' = "returned"
                   /\ job_result' = "failure"
                   /\ emitted' = Emit(<<"progress(70)", "progress(75)">> \o ExceptEmits)
                   /\ UNCHANGED <<input_text, language_code, video_title, chunk_size>>
    /\ UNCHANGED <<text_chunks, sum_i, chunk_summaries, requests, in_flight, replies,
                   summary>>
    /\ UNCHANGED <<entry, punctuated, download_success, job_title, saved>>
    /\ UNCHANGED <<trVars, tcVars>>
    /\ UNCHANGED guiVars

\* summarize_text has returned: the summary is saved, FileManager.cleanup
\* removes the temp directory (or logs that it could not) and the job
\* returns True / emits progress 100 and complete_signal(True, path).  Had
\* it raised, the except returns False / emits complete_signal(False, ...).
FinishJob ==
    /\ job_pc = "summarizing"
    /\ sum_pc \in {"returned", "raised"}
    /\ IF sum_pc = "raised"
       THEN /\ job_result' = "failure"
            /\ emitted' = Emit(ExceptEmits)
            /\ UNCHANGED <<saved, files>>
       ELSE /\ \E ok \in BOOLEAN :
                  saved' = SaveToMarkdown(saved, "summary", summary, ok)
            /\ \E removed \in BOOLEAN :
                  files' = IF removed THEN << >> ELSE files
            /\ job_result' = "success"
            /\ emitted' = Emit(<<"progress(90)", "progress(95)", "save(summary)",
                                 "progress(98)", "progress(100)", "complete(True)">>)
    /\ job_pc' = "returned"
    /\ UNCHANGED <<entry, punctuated, download_success, job_title, bound_args>>
    /\ UNCHANGED <<segments, chunk_size_ms, use_parallel, max_workers, pc, chunks,
                   task, future, results, transcribed_text, loop_i,
                   full_transcription, outcome, out_of_order, invoked>>
    /\ UNCHANGED <<tcVars, sumVars>>
    /\ UNCHANGED guiVars

\* A job on an audio of up to MaxJobSegs one-millisecond segments, each
\* its own chunk, from either entry, in both transcription modes.
InitJob ==
    /\ \E n \in 0..MaxJobSegs : segments = SegmentsOf([i \in 1..n |-> 1])
    /\ chunk_size_ms = 1
    /\ use_parallel \in BOOLEAN
    /\ max_workers = DefaultMaxWorkers
    /\ pc = "idle"
    /\ chunks = << >>
    /\ task = << >>
    /\ files = << >>
    /\ future = << >>
    /\ results = << >>
    /\ transcribed_text = << >>
    /\ loop_i = 1
    /\ full_transcription = << >>
    /\ outcome = << >>
    /\ out_of_order = FALSE
    /\ invoked = << >>
    /\ TcIdle
    /\ SumIdle
    /\ entry \in {"cli", "gui"}
    /\ punctuated \in BOOLEAN
    /\ job_pc = "start"
    /\ download_success = FALSE
    /\ job_title = << >>
    /\ saved = {}
    /\ job_result = "none"
    /\ bound_args = << >>
    /\ emitted = << >>
    /\ GuiIdle

NextJob ==
    \/ Download
    \/ LoadAndCombine
    \/ \E i \in 1..K : WorkerExport(i)
    \/ \E i \in 1..K : WorkerRecognize(i)
    \/ Collect
    \/ AssignResult
    \/ SeqExport
    \/ SeqRecognize
    \/ JoinAndReturn
    \/ EmptyTranscript
    \/ StartSummary
    \/ GuiSummarize
    \/ SumSplit
    \/ CallChunk
    \/ ChunkReturn
    \/ CallReduce
    \/ ReduceReturn
    \/ FinishJob

SpecJob == InitJob /\ [][NextJob]_vars

(***************************************************************************)
(* Claims about the job.                                                   *)
(***************************************************************************)
JobReturned == job_pc = "returned"
SavedKinds == {f.file : f \in saved}

\* Every chunk call of the summarizer has come back, and every one failed.
EveryChunkCallFailed ==
    /\ NChunks >= 1
    /\ Len(replies) >= NChunks
    /\ \A j \in 1..NChunks : replies[j] = "error"

\* C15 as stated: when the summarization call of every chunk fails, no
\* reduction request is issued, no summary is returned or saved and the job
\* reports failure.
C15_AllFailedIsFatal ==
    (entry = "cli" /\ EveryChunkCallFailed) =>
        /\ Len(requests) = NChunks
        /\ summary = << >>
        /\ "summary" \notin SavedKinds
        /\ job_result # "success"

\* Transcription has returned and the joined transcript is empty.
TranscriptEmpty == pc = "done" /\ full_transcription = << >>

\* C16: when the joined transcript is empty (every chunk empty or failed,
\* or no chunks at all) the job ends in failure: summarize_text is never
\* entered, no generative request is issued and neither a transcript nor a
\* summary file is written.
C16_EmptyTranscriptAborts ==
    TranscriptEmpty =>
        /\ job_pc \in {"transcribing", "returned"}
        /\ job_pc = "transcribing" => ENABLED EmptyTranscript
        /\ JobReturned => job_result = "failure"
        /\ sum_pc = "idle"
        /\ requests = << >>
        /\ in_flight = 0
        /\ saved = {}

\* A job whose two chunks gave nothing: one failed, one was silent.
C16_Witness ==
    /\ TranscriptEmpty
    /\ JobReturned
    /\ job_result = "failure"
    /\ K = 2
    /\ outcome[1] \in {"io_error", "rec_error"}
    /\ outcome[2] = "empty"

\* C17: a failed download ends the job in failure with nothing downstream
\* run: the audio is not split, no chunk is exported or recognized, no
\* generative request is issued and no output file is written.
C17_DownloadFatal ==
    (job_pc # "start" /\ ~download_success) =>
        /\ JobReturned
        /\ job_result = "failure"
        /\ pc = "idle"
        /\ chunks = << >>
        /\ task = << >>
        /\ outcome = << >>
        /\ files = << >>
        /\ full_transcription = << >>
        /\ sum_pc = "idle"
        /\ requests = << >>
        /\ saved = {}

\* A job on a three-segment audio whose download failed.
C17_Witness ==
    /\ JobReturned
    /\ ~download_success
    /\ job_result = "failure"
    /\ Len(segments) = 3
    /\ job_title = <<"Unknown Title">>

\* C18: process_video returns False only after a failed download or an
\* empty transcript; with a transcript, whatever chunk transcriptions,
\* chunk summarizations or reduction call failed, summarize_text returns a
\* document and process_video returns True.
C18_OnlyFatalErrorsFail ==
    entry = "cli" =>
        /\ job_result = "failure" => (~download_success \/ TranscriptEmpty)
        /\ job_pc = "summarizing" => sum_pc # "raised"
        /\ (JobReturned /\ download_success /\ ~TranscriptEmpty) =>
              /\ job_result = "success"
              /\ sum_pc = "returned"
              /\ summary # << >>
              /\ \A f \in saved : f.file = "summary" => f.content = summary

\* A successful job in which a chunk transcription, a chunk summarization
\* and the reduction call all failed.
C18_Witness ==
    /\ entry = "cli"
    /\ JobReturned
    /\ job_result = "success"
    /\ K = 3
    /\ outcome[2] = "rec_error"
    /\ NChunks = 2
    /\ replies = <<"error", "ok", "error">>
    /\ summary = ErrorMarker \o <<"\n\n">> \o Response(2)
    /\ SavedFile("summary", summary) \in saved

(***************************************************************************)
(* Claims about the mode of the scheduler and the shape of its results.    *)
(***************************************************************************)
\* Chunks whose process_chunk call has begun.
Begun == {i \in 1..K : task[i] # "queued"}

\* C21: the pool is used exactly when the parallel flag is set and there
\* is more than one chunk; otherwise the chunks are processed on the
\* calling thread in index order, chunk i+1 beginning only once the result
\* of chunk i is recorded, and nothing is ever collected from a pool.
C21_ModeSelection ==
    Combined =>
        /\ pc \in {"parallel", "assign"} => (use_parallel /\ K > 1)
        /\ pc = "sequential" => ~(use_parallel /\ K > 1)
        /\ (use_parallel /\ K > 1 /\ Returned) => Len(results) = K
        /\ ~(use_parallel /\ K > 1) =>
              /\ pc \in {"sequential", "done"}
              /\ results = << >>
              /\ ~out_of_order
              /\ \A i \in Begun :
                    /\ i <= loop_i
                    /\ \A j \in 1..(i - 1) :
                          /\ task[j] = "done"
                          /\ future[j] # NoResult
                          /\ loop_i > j
              /\ \A i \in 1..K : task[i] = "recognize" => i = loop_i

\* The sequential loop, parallel switched off, in the middle of the second
\* of three chunks.
C21_Witness ==
    /\ pc = "sequential"
    /\ ~use_parallel
    /\ K = 3
    /\ loop_i = 2
    /\ task = <<"done", "recognize", "queued">>

\* The result of chunk i, once process_chunk has returned.
HasResult(i) == future[i] # NoResult

\* C22 as stated: after either kind of per-chunk failure the result of the
\* chunk holds an empty text and an error descriptor, under its own index.
C22_FailureHoldsEmptyText ==
    Combined =>
        \A i \in 1..K :
            (HasResult(i) /\ Failed(i)) =>
                /\ future[i][1] = i
                /\ future[i][2].has_text
                /\ future[i][2].text = << >>
                /\ future[i][2].has_error

\* C22, amended: after a recognition error the result holds the empty text
\* and an error descriptor; after a scratch-file error it holds the error
\* descriptor only, with no text at all; both are keyed by the chunk's own
\* index and the chunk's slot of the results array stays empty.
C22_FailureShape ==
    Combined =>
        \A i \in 1..K :
            (HasResult(i) /\ Failed(i)) =>
                /\ future[i][1] = i
                /\ future[i][2].has_error
                /\ outcome[i] = "rec_error" =>
                      (future[i][2].has_text /\ future[i][2].text = << >>)
                /\ outcome[i] = "io_error" => ~future[i][2].has_text
                /\ transcribed_text[i] = << >>

\* A returned job with one failure of each kind.
C22_Witness ==
    /\ Returned
    /\ K = 3
    /\ outcome = <<"text", "io_error", "rec_error">>
    /\ ~future[2][2].has_text
    /\ future[3][2].has_text

\* C23: in both modes every chunk is handed to process_chunk exactly once,
\* recognize_google is called at most once per chunk, and exactly once
\* unless the chunk's export failed first, and a result has been collected
\* for each of the k chunks when the transcript is joined.
C23_ExactlyOnce ==
    Combined =>
        /\ \A i \in 1..K :
              /\ invoked[i].process_chunk = IF i \in Begun THEN 1 ELSE 0
              /\ invoked[i].recognize_google <= 1
              /\ invoked[i].recognize_google <= invoked[i].process_chunk
              /\ task[i] = "done" =>
                    invoked[i].recognize_google =
                        IF outcome[i] = "io_error" THEN 0 ELSE 1
        /\ Returned =>
              /\ \A i \in 1..K : invoked[i].process_chunk = 1 /\ HasResult(i)
              /\ UsePool(use_parallel, K) =>
                    /\ Len(results) = K
                    /\ \A i \in 1..K : results[i][1] = i

\* A returned pool job of three chunks: the export of one failed, so it
\* was never recognized, and the recognition of another failed once.
C23_Witness ==
    /\ Returned
    /\ UsePool(use_parallel, K)
    /\ K = 3
    /\ outcome = <<"io_error", "rec_error", "text">>
    /\ invoked[1] = [process_chunk |-> 1, recognize_google |-> 0]
    /\ invoked[2] = [process_chunk |-> 1, recognize_google |-> 1]

(***************************************************************************)
(* Further claims about the combiner.                                      *)
(***************************************************************************)
\* The segment list with one more segment of duration d at its end.
OneMore(segs, d) == Append(segs, Segment(Len(segs) + 1, d))

\* Number of chunks the combiner makes of a segment list.
ChunkCount(segs, limit) == Len(CombineChunks(segs, limit))

\* C24: for every segment list, maximum and additional segment, the list
\* followed by the segment gives at least as many chunks as the list alone.
C24_CountMonotonic ==
    Combined =>
        /\ K = ChunkCount(segments, chunk_size_ms)
        /\ \A d \in 1..MaxDur :
              ChunkCount(OneMore(segments, d), chunk_size_ms) >= K

\* A two-segment list to which one segment adds no chunk and another adds
\* one.
C24_Witness ==
    /\ Combined
    /\ Len(segments) = 2
    /\ K = 2
    /\ \E d \in 1..MaxDur : ChunkCount(OneMore(segments, d), chunk_size_ms) = K
    /\ \E d \in 1..MaxDur : ChunkCount(OneMore(segments, d), chunk_size_ms) = K + 1

\* C26: of a non-empty list of non-empty segments, whatever the maximum,
\* every chunk the combiner emits holds at least one segment.
C26_NoEmptyChunk ==
    (Combined /\ Len(segments) > 0 /\ \A j \in 1..Len(segments) : Len(segments[j]) > 0) =>
        \A i \in 1..K : Len(chunks[i]) > 0

(***************************************************************************)
(* Claims about what the pool workers share.                               *)
(***************************************************************************)
\* A step of the worker of chunk i.
WorkerStep(i) == task'[i] # task[i]

\* The step leaves alone everything that belongs to the other chunks.
OthersUntouched(i) ==
    /\ \A j \in (1..K) \ {i} :
          /\ task'[j] = task[j]
          /\ future'[j] = future[j]
          /\ outcome'[j] = outcome[j]
          /\ invoked'[j] = invoked[j]
    /\ DOMAIN files' \subseteq DOMAIN files \cup {ChunkFilename(i)}
    /\ \A n \in DOMAIN files :
          n # ChunkFilename(i) => (n \in DOMAIN files' /\ files'[n] = files[n])
    /\ UNCHANGED <<segments, chunks, results, transcribed_text, loop_i,
                   full_transcription>>

\* The step writes slot i of the results array and no other.
OnlySlot(i) ==
    \A j \in (1..K) \ {i} : transcribed_text'[j] = transcribed_text[j]

\* C25: a pool worker changes only the position, scratch file and result
\* of its own chunk, and the results then reach the pre-sized array one
\* slot each, the slot of their own index.
C25_NoSharedState ==
    [][/\ pc = "parallel" => \A i \in 1..K : WorkerStep(i) => OthersUntouched(i)
       /\ (pc = "assign" /\ loop_i' # loop_i) =>
             /\ results[loop_i][1] = loop_i
             /\ OnlySlot(loop_i)]_vars

\* The results of a pool run in which a later chunk finished first are on
\* their way into the array: two slots are filled, the third is not.
C25_Witness ==
    /\ pc = "assign"
    /\ out_of_order
    /\ K = 3
    /\ loop_i = 3
    /\ outcome = <<"text", "text", "text">>
    /\ transcribed_text = <<Spoken(1), Spoken(2), << >>>>

(***************************************************************************)
(* Claims about the number of text chunks and of requests.                 *)
(***************************************************************************)
\* C27: split_text_into_chunks returns at least one chunk for every text,
\* the empty one included, so summarize_text reaches its reduction step
\* with at least one fragment, never raises for want of one, and has issued
\* k + 1 requests for k chunks when it returns.
C27_AtLeastOneChunk ==
    /\ sum_pc = "start" =>
          \A t \in SeqsUpTo(Alphabet, MaxTextLen), m \in 1..MaxChunkSize :
              Len(SplitTextIntoChunks(t, m)) >= 1
    /\ sum_pc \notin {"idle", "start"} => NChunks >= 1
    /\ sum_pc # "raised"
    /\ LoopDone => Len(chunk_summaries) >= 1
    /\ SumReturned => Len(requests) = NChunks + 1

\* The empty text, summarized: one empty chunk, two requests.
C27_Witness ==
    /\ SumReturned
    /\ input_text = << >>
    /\ text_chunks = << << >> >>
    /\ Len(chunk_summaries) = 1
    /\ Len(requests) = 2

(***************************************************************************)
(* Claims about WorkerThread.run.                                          *)
(***************************************************************************)
\* Positions of the complete_signal emissions among the emitted signals.
Completions ==
    {j \in 1..Len(emitted) : emitted[j] \in {"complete(True)", "complete(False)"}}

Emitted(e) == \E j \in 1..Len(emitted) : emitted[j] = e

\* C28: a GUI run whose download succeeded, whose transcript is not empty
\* and in which no generative call failed binds the transcript, a language
\* code, the title and an integer chunk_size, reaches the save step and
\* ends with progress 100 and complete_signal(True, ...).
C28_GuiRunSucceeds ==
    (/\ entry = "gui"
     /\ JobReturned
     /\ download_success
     /\ ~TranscriptEmpty
     /\ \A j \in 1..Len(replies) : replies[j] = "ok") =>
        /\ LenComparable(bound_args.chunk_size)
        /\ bound_args.input_text = PyStr(full_transcription)
        /\ bound_args.language_code.val \in {GuiSourceLanguage, GuiOutputLanguage}
        /\ job_result = "success"
        /\ Emitted("save(summary)")
        /\ Emitted("progress(100)")
        /\ emitted[Len(emitted)] = "complete(True)"
        /\ bound_args.video_title = PyStr(job_title)

\* C29: a run of WorkerThread.run emits complete_signal exactly once, as
\* its last signal, whichever way it ends, and none before it ends; it
\* emits complete_signal(True, ...) only after the summary went to the save
\* step, and progress 100 only when it succeeds.
C29_CompleteOnce ==
    entry = "gui" =>
        /\ Cardinality(Completions) = IF JobReturned THEN 1 ELSE 0
        /\ JobReturned =>
              /\ Completions = {Len(emitted)}
              /\ (emitted[Len(emitted)] = "complete(True)") = (job_result = "success")
        /\ ~JobReturned => ENABLED NextJob
        /\ \A j \in 1..Len(emitted) :
              /\ emitted[j] = "complete(True)" =>
                    \E k \in 1..(j - 1) : emitted[k] = "save(summary)"
              /\ emitted[j] = "progress(100)" =>
                    (\A k \in 1..Len(emitted) : emitted[k] # "complete(False)")

\* A run that ended in the except handler, after a transcript was made.
C29_Witness ==
    /\ entry = "gui"
    /\ JobReturned
    /\ ~TranscriptEmpty
    /\ sum_pc = "raised"
    /\ emitted = <<"progress(10)", "progress(20)", "progress(40)", "progress(50)",
                   "progress(70)", "progress(75)", "progress(0)", "complete(False)">>

\* ---------------------------------------------------------------------
\* SummaryViewer: the Process button and the worker it starts
\* ---------------------------------------------------------------------
MaxGuiJobs == 2       \* WorkerThreads started in one session of the window

\* process_video cannot be entered through a disabled button: clicked is
\* its only trigger.
ClickReaches == process_btn_enabled

\* setEnabled(False) before the worker is created.
ButtonAfterStartEnabled == TRUE
ButtonAfterStart == FALSE

\* setEnabled(True), the first statement of process_complete, before the
\* success flag is looked at.
ButtonAfterComplete(success) == TRUE

\* The user edits the URL field.
EditUrl ==
    /\ url_entered' = ~url_entered
    /\ UNCHANGED <<process_btn_enabled, worker, handled>>
    /\ UNCHANGED <<trVars, tcVars, sumVars, jobVars>>

\* A click on the Process button: SummaryViewer.process_video.  With a
\* blank URL it warns and returns; otherwise it disables the button,
\* replaces self.worker by a new WorkerThread and starts it.  The new
\* thread's run begins from its first statement; scratch files of earlier
\* runs are still on disk.
ClickProcess ==
    /\ ClickReaches
    /\ worker < MaxGuiJobs
    /\ IF ~url_entered
       THEN UNCHANGED vars
       ELSE /\ process_btn_enabled' = ButtonAfterStart
            /\ worker' = worker + 1
            /\ UNCHANGED <<url_entered, handled>>
            /\ entry' = "gui"
            /\ punctuated' = FALSE
            /\ job_pc' = "start"
            /\ download_success' = FALSE
            /\ job_title' = << >>
            /\ job_result' = "none"
            /\ bound_args' = << >>
            /\ emitted' = << >>
            /\ UNCHANGED saved
            /\ \E n \in 0..MaxJobSegs : segments' = SegmentsOf([i \in 1..n |-> 1])
            /\ chunk_size_ms' = 1
            /\ use_parallel' \in BOOLEAN
            /\ max_workers' = DefaultMaxWorkers
            /\ pc' = "idle"
            /\ chunks' = << >>
            /\ task' = << >>
            /\ future' = << >>
            /\ results' = << >>
            /\ transcribed_text' = << >>
            /\ loop_i' = 1
            /\ full_transcription' = << >>
            /\ outcome' = << >>
            /\ out_of_order' = FALSE
            /\ invoked' = << >>
            /\ UNCHANGED files
            /\ input_text' = << >>
            /\ language_code' = "none"
            /\ video_title' = << >>
            /\ chunk_size' = 0
            /\ sum_pc' = "idle"
            /\ text_chunks' = << >>
            /\ sum_i' = 0
            /\ chunk_summaries' = << >>
            /\ requests' = << >>
            /\ in_flight' = 0
            /\ replies' = << >>
            /\ summary' = << >>
            /\ UNCHANGED tcVars

\* The slot connected to complete_signal, run by the window's thread once
\* for the signal the worker emitted: SummaryViewer.process_complete.
ProcessComplete ==
    /\ worker > 0
    /\ Len(handled) < worker
    /\ \E j \in 1..Len(emitted) :
          /\ emitted[j] \in {"complete(True)", "complete(False)"}
          /\ LET success == emitted[j] = "complete(True)"
             IN  /\ process_btn_enabled' = ButtonAfterComplete(success)
                 /\ handled' = Append(handled, success)
    /\ UNCHANGED <<url_entered, worker>>
    /\ UNCHANGED <<trVars, tcVars, sumVars, jobVars>>

\* The window after SummaryViewer.__init__: the button is enabled, the URL
\* field is blank and self.worker does not exist yet.
InitGui ==
    /\ TrIdle
    /\ TcIdle
    /\ SumIdle
    /\ JobIdle
    /\ url_entered = FALSE
    /\ process_btn_enabled = TRUE
    /\ worker = 0
    /\ handled = << >>

\* The window's handlers together with the steps of the worker's run.  The
\* call of summarize_text raises in every run of the worker (GuiSummarize),
\* so the summarizer's steps and the saving of the document are no steps
\* of a worker.
NextGui ==
    \/ EditUrl
    \/ ClickProcess
    \/ ProcessComplete
    \/ Download
    \/ LoadAndCombine
    \/ \E i \in 1..K : WorkerExport(i)
    \/ \E i \in 1..K : WorkerRecognize(i)
    \/ Collect
    \/ AssignResult
    \/ SeqExport
    \/ SeqRecognize
    \/ JoinAndReturn
    \/ EmptyTranscript
    \/ GuiSummarize

SpecGui == InitGui /\ [][NextGui]_vars

\* The current worker has been started and its completion is not handled.
Busy == worker > 0 /\ Len(handled) < worker

\* The current worker is still executing run.
WorkerRunning == worker > 0 /\ ~JobReturned

\* C30: the Process button is disabled exactly from the start of a worker
\* until that worker's completion signal is handled, whether the run
\* succeeded or failed, and a WorkerThread is created (self.worker
\* replaced) only when no worker is running and every earlier completion
\* has been handled.
C30_OneJobAtATime ==
    /\ [](/\ process_btn_enabled = ~Busy
          /\ WorkerRunning => Busy
          /\ Len(handled) \in {worker, worker - 1})
    /\ [][worker' # worker =>
            /\ ~WorkerRunning
            /\ ~Busy
            /\ worker' = worker + 1
            /\ ~process_btn_enabled'
            /\ WorkerRunning']_vars

\* C30 witness: the first worker failed, its completion was handled and
\* the button re-enabled, and a second worker started by a later click is
\* now transcribing with the button disabled.
C30_Witness ==
    /\ worker = 2
    /\ handled = <<FALSE>>
    /\ job_pc = "transcribing"
    /\ pc = "parallel"
    /\ ~process_btn_enabled

====
